---------------------------- MODULE Spec2Model ----------------------------
(***************************************************************************)
(* Model of src/src/relay.c: the relay channel readers, the record         *)
(* dispatcher and the identifier -> pathname cache of libprovenance.       *)
(*                                                                         *)
(* Bytes are strings.  A record is a sequence of bytes whose first byte is *)
(* its type tag (prov_type); a path record carries its identifier in byte  *)
(* 2 and its name in byte 3.  sizeof(union prov_elt) and                   *)
(* sizeof(union long_prov_elt) come from a kernel header and are scaled    *)
(* down to ShortSize and LongSize bytes; the 1000-record read buffer is    *)
(* scaled down to BufRecords records.                                      *)
(***************************************************************************)
EXTENDS Integers, Sequences, FiniteSets, TLC

(* ------------------------------ bounds --------------------------------- *)
NCpus == 2          \* CPUs reported by sysconf(_SC_NPROCESSORS_ONLN)
ShortSize == 2      \* sizeof(union prov_elt), in bytes
BufRecords == 2     \* records per read buffer (1000 in buffer_size)
MaxRecs == 3        \* records emitted on one channel
MaxErrors == 1      \* poll / read failures the environment injects
MaxCacheCalls == 3  \* calls made by the name cache caller
LifeCpus == 1       \* CPUs of the system that is registered and stopped

LongSize == ShortSize + 1   \* sizeof(union long_prov_elt) > sizeof(union prov_elt)

(* ------------------------------ helpers -------------------------------- *)
Min(a, b) == IF a < b THEN a ELSE b

RECURSIVE Flatten(_)
Flatten(ss) == IF ss = <<>> THEN <<>> ELSE Head(ss) \o Flatten(Tail(ss))

Pad(n) == [k \in 1..n |-> "z"]

IsPrefix(s, t) == Len(s) <= Len(t) /\ SubSeq(t, 1, Len(s)) = s

(* ------------------------------ type tags ------------------------------ *)
\* relation types, named by the W3C class whose prov_is_* predicate they satisfy;
\* "RL_OTHER" is a relation type that satisfies none of the six predicates
RelationClasses == {"used", "informed", "generated", "derived", "influenced", "associated"}
RelationTags == RelationClasses \cup {"RL_OTHER"}

InodeTags == {"ENT_INODE_UNKNOWN", "ENT_INODE_LINK", "ENT_INODE_FILE", "ENT_INODE_DIRECTORY",
              "ENT_INODE_CHAR", "ENT_INODE_BLOCK", "ENT_INODE_PIPE", "ENT_INODE_SOCKET"}
NodeTags == {"ENT_PROC", "ACT_TASK", "ENT_MSG", "ENT_SHM", "ENT_PACKET", "ENT_IATTR"} \cup InodeTags
LongTags == {"ENT_STR", "ENT_PATH", "ENT_ADDR", "ENT_XATTR", "ENT_DISC", "ACT_DISC",
             "AGT_DISC", "ENT_PCKCNT", "ENT_ARG", "ENT_ENV", "AGT_MACHINE"}
\* "ND_OTHER" is a tag no switch recognises
AllTags == RelationTags \cup NodeTags \cup LongTags \cup {"ND_OTHER"}

prov_type(msg) == msg[1]
prov_is_relation(msg) == prov_type(msg) \in RelationTags

(* --------------------------- operations table -------------------------- *)
RelationSlots == {"log_used", "log_informed", "log_generated", "log_derived",
                  "log_influenced", "log_associated"}
NodeSlots == {"log_proc", "log_task", "log_inode", "log_msg", "log_shm", "log_packet", "log_iattr"}
LongSlots == {"log_str", "log_file_name", "log_address", "log_xattr", "log_ent_disc",
              "log_act_disc", "log_agt_disc", "log_packet_content", "log_arg", "log_machine"}
HandlerSlots == RelationSlots \cup NodeSlots \cup LongSlots
ControlSlots == {"init", "received_prov", "received_long_prov", "filter", "log_error"}
Slots == HandlerSlots \cup ControlSlots

\* struct provenance_ops: the slots that are not NULL, and the is_query flag
provenance_ops == [set : SUBSET Slots, is_query : BOOLEAN]

(* ------------------------------- events -------------------------------- *)
\* every call the library makes into the operations table, and every call of
\* record_error, is appended to the calling thread's log as <<name, argument>>
Ev(name, arg) == <<name, arg>>

record_error(ops, what) ==
  <<Ev("record_error", <<what>>)>> \o
  (IF "log_error" \in ops.set THEN <<Ev("log_error", <<what>>)>> ELSE <<>>)

relation_record(ops, msg) ==
  LET type == prov_type(msg) IN
  IF type = "used" /\ "log_used" \in ops.set THEN <<Ev("log_used", msg)>>
  ELSE IF type = "informed" /\ "log_informed" \in ops.set THEN <<Ev("log_informed", msg)>>
  ELSE IF type = "generated" /\ "log_generated" \in ops.set THEN <<Ev("log_generated", msg)>>
  ELSE IF type = "derived" /\ "log_derived" \in ops.set THEN <<Ev("log_derived", msg)>>
  ELSE IF type = "influenced" /\ "log_influenced" \in ops.set THEN <<Ev("log_influenced", msg)>>
  ELSE IF type = "associated" /\ "log_associated" \in ops.set THEN <<Ev("log_associated", msg)>>
  ELSE record_error(ops, "unknown relation type")

\* a switch case that calls handler `slot` when it is set and otherwise does nothing
Case(ops, slot, msg) == IF slot \in ops.set THEN <<Ev(slot, msg)>> ELSE <<>>

node_record(ops, msg) ==
  LET type == prov_type(msg) IN
  IF type = "ENT_PROC" THEN Case(ops, "log_proc", msg)
  ELSE IF type = "ACT_TASK" THEN Case(ops, "log_task", msg)
  ELSE IF type \in InodeTags THEN Case(ops, "log_inode", msg)
  ELSE IF type = "ENT_MSG" THEN Case(ops, "log_msg", msg)
  ELSE IF type = "ENT_SHM" THEN Case(ops, "log_shm", msg)
  ELSE IF type = "ENT_PACKET" THEN Case(ops, "log_packet", msg)
  ELSE IF type = "ENT_IATTR" THEN Case(ops, "log_iattr", msg)
  ELSE record_error(ops, "unknown node type")

prov_record(ops, msg) ==
  IF prov_is_relation(msg) THEN relation_record(ops, msg) ELSE node_record(ops, msg)

\* long_prov_record for every tag but ENT_PATH, whose case goes through the name cache
long_prov_record(ops, msg) ==
  LET type == prov_type(msg) IN
  IF type = "ENT_STR" THEN Case(ops, "log_str", msg)
  ELSE IF type = "ENT_ADDR" THEN Case(ops, "log_address", msg)
  ELSE IF type = "ENT_XATTR" THEN Case(ops, "log_xattr", msg)
  ELSE IF type = "ENT_DISC" THEN Case(ops, "log_ent_disc", msg)
  ELSE IF type = "ACT_DISC" THEN Case(ops, "log_act_disc", msg)
  ELSE IF type = "AGT_DISC" THEN Case(ops, "log_agt_disc", msg)
  ELSE IF type = "ENT_PCKCNT" THEN Case(ops, "log_packet_content", msg)
  ELSE IF type \in {"ENT_ARG", "ENT_ENV"} THEN Case(ops, "log_arg", msg)
  ELSE IF type = "AGT_MACHINE" THEN Case(ops, "log_machine", msg)
  ELSE record_error(ops, "unknown node long type")

\* Pipeline as it would be if is_query were not tested
Pipeline_noquery(ops, inited, observer, msg, fres) ==
  LET doInit == ~inited /\ "init" \in ops.set
      e1 == IF doInit THEN <<Ev("init", <<>>)>> ELSE <<>>
      e2 == IF observer \in ops.set THEN <<Ev(observer, msg)>> ELSE <<>>
      noFilter == "filter" \notin ops.set
      e3 == IF ~noFilter
              THEN <<Ev(IF fres THEN "filter:true" ELSE "filter:false", msg)>> ELSE <<>>
  IN [events |-> e1 \o e2 \o e3,
      inited |-> (inited \/ doInit),
      record |-> (noFilter \/ ~fres)]

\* Pipeline as it would be if the filter were consulted before the observer
Pipeline_filterfirst(ops, inited, observer, msg, fres) ==
  LET doInit == ~inited /\ "init" \in ops.set
      e1 == IF doInit THEN <<Ev("init", <<>>)>> ELSE <<>>
      query == ops.is_query
      noFilter == "filter" \notin ops.set
      e2 == IF ~query /\ ~noFilter
              THEN <<Ev(IF fres THEN "filter:true" ELSE "filter:false", msg)>> ELSE <<>>
      e3 == IF observer \in ops.set /\ (query \/ noFilter \/ ~fres)
              THEN <<Ev(observer, msg)>> ELSE <<>>
  IN [events |-> e1 \o e2 \o e3,
      inited |-> (inited \/ doInit),
      record |-> (~query /\ (noFilter \/ ~fres))]

\* Pipeline as it would be if the latch were never set
Pipeline_nolatch(ops, inited, observer, msg, fres) ==
  LET doInit == ~inited /\ "init" \in ops.set
      e1 == IF doInit THEN <<Ev("init", <<>>)>> ELSE <<>>
      e2 == IF observer \in ops.set THEN <<Ev(observer, msg)>> ELSE <<>>
      query == ops.is_query
      noFilter == "filter" \notin ops.set
      e3 == IF ~query /\ ~noFilter
              THEN <<Ev(IF fres THEN "filter:true" ELSE "filter:false", msg)>> ELSE <<>>
  IN [events |-> e1 \o e2 \o e3,
      inited |-> inited,
      record |-> (~query /\ (noFilter \/ ~fres))]

\* The part of callback_job / long_callback_job between the size check and the
\* record function: the per-thread init latch, the received observer, the
\* is_query test and the filter.  fres is what the filter predicate returns.
Pipeline(ops, inited, observer, msg, fres) ==
  LET doInit == ~inited /\ "init" \in ops.set
      e1 == IF doInit THEN <<Ev("init", <<>>)>> ELSE <<>>
      e2 == IF observer \in ops.set THEN <<Ev(observer, msg)>> ELSE <<>>
      query == ops.is_query
      noFilter == "filter" \notin ops.set
      e3 == IF ~query /\ ~noFilter
              THEN <<Ev(IF fres THEN "filter:true" ELSE "filter:false", msg)>> ELSE <<>>
  IN [events |-> e1 \o e2 \o e3,
      inited |-> (inited \/ doInit),
      record |-> (~query /\ (noFilter \/ ~fres))]

(* ------------------------------- state --------------------------------- *)
\* a thread is <<cpu, kind>>: the reader of one channel, or the API caller
Kinds == {"short", "long"}
Readers == (1..NCpus) \X Kinds
Caller == <<0, "caller">>
Procs == Readers \cup {Caller}
Free == <<0, "free">>

Ids == {"i1", "i2"}
Names == {"a", "b"}

VARIABLES
  prov_ops,     \* static struct provenance_ops prov_ops
  ncpus,        \* static uint8_t ncpus
  running,      \* static uint8_t running
  nhash,        \* the uthash table, as the sequence of its entries in insertion order
  nash_lock,    \* pthread_mutex_t nash_lock: its holder, or Free
  initialised,  \* static __thread int initialised, per thread
  pc,           \* where each thread is
  stack,        \* each thread's return addresses
  nameid,       \* name cache functions: argument nameid, per thread
  name,         \* name cache functions: argument name, per thread
  rv,           \* name cache functions: what the last call returned, per thread
  cbarg,        \* callback_job / long_callback_job: arguments data and prov_size
  buf,          \* ___read_relay: the bytes accumulated in buf
  size,         \* ___read_relay: size
  i,            \* ___read_relay: i
  unread,       \* per channel: the bytes the kernel emits that no read has returned yet
  emitted,      \* per channel: everything the kernel emits, record by record
  budget,       \* poll / read failures the environment may still inject
  calls,        \* per thread: the log of calls into the operations table and of record_error
  slices,       \* per thread: the entries passed to the callback in the current drain
  ncalls,       \* calls made by the name cache caller
  fd,           \* relay_file[] / long_relay_file[]: per channel "none", "open" or "closed"
  worker_thpool,\* static threadpool worker_thpool: "NULL", "created" or "destroyed"
  nash_inited,  \* whether pthread_mutex_init has run on nash_lock
  nprocs,       \* what sysconf(_SC_NPROCESSORS_ONLN) returned to provenance_relay_register
  ret           \* what provenance_relay_register returned: "none", "0" or "-1"

cacheVars == <<nhash, nash_lock, nameid, name, rv>>
readVars == <<buf, size, i, unread, slices, budget>>
lifeVars == <<fd, worker_thpool, nash_inited, nprocs, ret>>
vars == <<prov_ops, ncpus, running, nhash, nash_lock, initialised, pc, stack, nameid, name, rv,
          cbarg, buf, size, i, unread, emitted, budget, calls, slices, ncalls,
          fd, worker_thpool, nash_inited, nprocs, ret>>

Goto(t, l) == pc' = [pc EXCEPT ![t] = l]
Log(t, evs) == calls' = [calls EXCEPT ![t] = @ \o evs]
\* call function f from t, to come back at label l
Call(t, f, l) == /\ pc' = [pc EXCEPT ![t] = f]
                 /\ stack' = [stack EXCEPT ![t] = <<l>> \o @]
Return(t) == /\ pc' = [pc EXCEPT ![t] = Head(stack[t])]
             /\ stack' = [stack EXCEPT ![t] = Tail(@)]

(* ------------------------------ name cache ----------------------------- *)
\* HASH_FIND: the positions of the entries whose key is id
HASH_FIND(h, id) == {k \in 1..Len(h) : h[k].id = id}
\* HASH_ADD as it would be if it added nothing
HASH_ADD_nothing(h, id, str) == h
\* HASH_ADD: uthash appends without looking for the key
HASH_ADD(h, id, str) == Append(h, [id |-> id, str |-> str])

\* name_exists_entry: pthread_mutex_lock
name_exists_entry(t) ==
  /\ pc[t] = "name_exists_entry"
  /\ nash_lock = Free
  /\ nash_lock' = t
  /\ Goto(t, "ne_find")
  /\ UNCHANGED lifeVars
  /\ UNCHANGED <<prov_ops, ncpus, running, emitted, nhash, nameid, name, rv, initialised, stack,
                 cbarg, calls, ncalls>>
  /\ UNCHANGED readVars

\* name_exists_entry: HASH_FIND, pthread_mutex_unlock, return
ne_find(t) ==
  /\ pc[t] = "ne_find"
  /\ nash_lock' = Free
  /\ rv' = [rv EXCEPT ![t] = [found |-> HASH_FIND(nhash, nameid[t]) # {}, str |-> ""]]
  /\ Return(t)
  /\ UNCHANGED lifeVars
  /\ UNCHANGED <<prov_ops, ncpus, running, emitted, nhash, nameid, name, initialised, cbarg, calls, ncalls>>
  /\ UNCHANGED readVars

\* name_add_entry: the call of name_exists_entry
name_add_entry(t) ==
  /\ pc[t] = "name_add_entry"
  /\ Call(t, "name_exists_entry", "nae_lock")
  /\ UNCHANGED lifeVars
  /\ UNCHANGED <<prov_ops, ncpus, running, emitted, initialised, cbarg, calls, ncalls>>
  /\ UNCHANGED cacheVars
  /\ UNCHANGED readVars

\* nae_lock as it would be if name_add_entry ignored what name_exists_entry returned
nae_lock_unchecked(t) ==
  /\ pc[t] = "nae_lock"
  /\ nash_lock = Free
  /\ nash_lock' = t
  /\ Goto(t, "nae_add")
  /\ UNCHANGED lifeVars
  /\ UNCHANGED <<prov_ops, ncpus, running, emitted, nhash, nameid, name, rv, initialised, stack,
                 cbarg, calls, ncalls>>
  /\ UNCHANGED readVars

\* name_add_entry: return if the entry exists, else malloc, copy, pthread_mutex_lock
nae_lock(t) ==
  /\ pc[t] = "nae_lock"
  /\ IF rv[t].found
       THEN Return(t) /\ UNCHANGED nash_lock
       ELSE /\ nash_lock = Free
            /\ nash_lock' = t
            /\ Goto(t, "nae_add")
            /\ UNCHANGED stack
  /\ UNCHANGED lifeVars
  /\ UNCHANGED <<prov_ops, ncpus, running, emitted, nhash, nameid, name, rv, initialised, cbarg, calls, ncalls>>
  /\ UNCHANGED readVars

\* name_add_entry: HASH_ADD, pthread_mutex_unlock, return
nae_add(t) ==
  /\ pc[t] = "nae_add"
  /\ nhash' = HASH_ADD(nhash, nameid[t], name[t])
  /\ nash_lock' = Free
  /\ Return(t)
  /\ UNCHANGED lifeVars
  /\ UNCHANGED <<prov_ops, ncpus, running, emitted, nameid, name, rv, initialised, cbarg, calls, ncalls>>
  /\ UNCHANGED readVars

\* name_find_entry: pthread_mutex_lock
name_find_entry(t) ==
  /\ pc[t] = "name_find_entry"
  /\ nash_lock = Free
  /\ nash_lock' = t
  /\ Goto(t, "nf_find")
  /\ UNCHANGED lifeVars
  /\ UNCHANGED <<prov_ops, ncpus, running, emitted, nhash, nameid, name, rv, initialised, stack,
                 cbarg, calls, ncalls>>
  /\ UNCHANGED readVars

\* name_find_entry: HASH_FIND, pthread_mutex_unlock, strncpy of the entry found, return.
\* With several entries under one key the one HASH_FIND meets first depends on
\* uthash's bucket order: any of them.
nf_find(t) ==
  /\ pc[t] = "nf_find"
  /\ nash_lock' = Free
  /\ IF HASH_FIND(nhash, nameid[t]) = {}
       THEN rv' = [rv EXCEPT ![t] = [found |-> FALSE, str |-> ""]]
       ELSE \E k \in HASH_FIND(nhash, nameid[t]) :
              rv' = [rv EXCEPT ![t] = [found |-> TRUE, str |-> nhash[k].str]]
  /\ Return(t)
  /\ UNCHANGED lifeVars
  /\ UNCHANGED <<prov_ops, ncpus, running, emitted, nhash, nameid, name, initialised, cbarg, calls, ncalls>>
  /\ UNCHANGED readVars

(* ------------------------------ callbacks ------------------------------ *)
\* callback_job as it would be without its size check
callback_job_anysize(t) ==
  /\ pc[t] = "callback_job"
  /\ \E fres \in BOOLEAN :
       LET msg == cbarg[t].data
           p == Pipeline(prov_ops, initialised[t], "received_prov", msg, fres)
       IN /\ Log(t, p.events \o (IF p.record THEN prov_record(prov_ops, msg) ELSE <<>>))
          /\ initialised' = [initialised EXCEPT ![t] = p.inited]
  /\ Return(t)
  /\ UNCHANGED lifeVars
  /\ UNCHANGED <<prov_ops, ncpus, running, emitted, cbarg, ncalls>>
  /\ UNCHANGED cacheVars
  /\ UNCHANGED readVars

\* callback_job, whole: the short record pipeline and prov_record
callback_job(t) ==
  /\ pc[t] = "callback_job"
  /\ IF cbarg[t].prov_size # ShortSize
       THEN /\ Log(t, record_error(prov_ops, "Wrong size"))
            /\ UNCHANGED initialised
       ELSE \E fres \in BOOLEAN :
              LET msg == cbarg[t].data
                  p == Pipeline(prov_ops, initialised[t], "received_prov", msg, fres)
              IN /\ Log(t, p.events \o (IF p.record THEN prov_record(prov_ops, msg) ELSE <<>>))
                 /\ initialised' = [initialised EXCEPT ![t] = p.inited]
  /\ Return(t)
  /\ UNCHANGED lifeVars
  /\ UNCHANGED <<prov_ops, ncpus, running, emitted, cbarg, ncalls>>
  /\ UNCHANGED cacheVars
  /\ UNCHANGED readVars

\* long_callback_job: the long record pipeline and long_prov_record, up to the
\* call of name_add_entry in case ENT_PATH
long_callback_job(t) ==
  /\ pc[t] = "long_callback_job"
  /\ IF cbarg[t].prov_size # LongSize
       THEN /\ Log(t, record_error(prov_ops, "Wrong size"))
            /\ Return(t)
            /\ UNCHANGED <<initialised, nameid, name>>
       ELSE \E fres \in BOOLEAN :
              LET msg == cbarg[t].data
                  p == Pipeline(prov_ops, initialised[t], "received_long_prov", msg, fres)
              IN /\ initialised' = [initialised EXCEPT ![t] = p.inited]
                 /\ IF p.record /\ prov_type(msg) = "ENT_PATH"
                      THEN /\ Log(t, p.events)
                           /\ nameid' = [nameid EXCEPT ![t] = msg[2]]
                           /\ name' = [name EXCEPT ![t] = msg[3]]
                           /\ Call(t, "name_add_entry", "lpr_path")
                      ELSE /\ Log(t, p.events \o
                                     (IF p.record THEN long_prov_record(prov_ops, msg) ELSE <<>>))
                           /\ Return(t)
                           /\ UNCHANGED <<nameid, name>>
  /\ UNCHANGED lifeVars
  /\ UNCHANGED <<prov_ops, ncpus, running, emitted, cbarg, ncalls, nhash, nash_lock, rv>>
  /\ UNCHANGED readVars

\* long_prov_record, case ENT_PATH, after name_add_entry: log_file_name, break, return
lpr_path(t) ==
  /\ pc[t] = "lpr_path"
  /\ Log(t, Case(prov_ops, "log_file_name", cbarg[t].data))
  /\ Return(t)
  /\ UNCHANGED lifeVars
  /\ UNCHANGED <<prov_ops, ncpus, running, emitted, initialised, cbarg, ncalls>>
  /\ UNCHANGED cacheVars
  /\ UNCHANGED readVars

(* ---------------------------- channel reader --------------------------- *)
RecSize(t) == IF t[2] = "short" THEN ShortSize ELSE LongSize
\* params->callback, set by create_worker_pool
Callback(t) == IF t[2] = "short" THEN "callback_job" ELSE "long_callback_job"
\* buffer_size(prov_size)
buffer_size(prov_size) == prov_size * BufRecords
\* the loop condition of reader_job, reached at the end of an iteration and by continue
While == IF running = 1 THEN "rj_poll" ELSE "done"

\* AfterRead as it would be if the do-while ended after one read
AfterRead_once(t, sz) == IF sz > 0 THEN "rr_dispatch" ELSE While

\* ___read_relay, where a read leaves it with `sz` bytes accumulated: the do-while
\* goes on while sz is misaligned; then while(size>0) dispatches, or with nothing to
\* dispatch ___read_relay frees buf and returns to the loop condition of reader_job
AfterRead(t, sz) ==
  IF sz % RecSize(t) # 0 THEN "rr_while" ELSE IF sz > 0 THEN "rr_dispatch" ELSE While

\* ___read_relay: size%prov_size!=0 held, the do-while takes another turn
read_relay_while(t) ==
  /\ pc[t] = "rr_while"
  /\ Goto(t, "rr_read")
  /\ UNCHANGED lifeVars
  /\ UNCHANGED <<prov_ops, ncpus, running, emitted, initialised, stack, cbarg, calls, ncalls>>
  /\ UNCHANGED cacheVars
  /\ UNCHANGED readVars

\* reader_job: nanosleep, poll succeeds, ___read_relay is entered and mallocs buf
reader_job_poll(t) ==
  /\ pc[t] = "rj_poll"
  /\ buf' = [buf EXCEPT ![t] = <<>>]
  /\ size' = [size EXCEPT ![t] = 0]
  /\ i' = [i EXCEPT ![t] = 0]
  /\ slices' = [slices EXCEPT ![t] = <<>>]
  /\ Goto(t, "rr_read")
  /\ UNCHANGED lifeVars
  /\ UNCHANGED <<prov_ops, ncpus, running, emitted, initialised, stack, cbarg, calls, ncalls,
                 unread, budget>>
  /\ UNCHANGED cacheVars

\* reader_job: nanosleep, poll fails: record_error, continue
reader_job_poll_error(t) ==
  /\ pc[t] = "rj_poll"
  /\ budget > 0
  /\ budget' = budget - 1
  /\ Log(t, record_error(prov_ops, "Failed while polling"))
  /\ Goto(t, While)
  /\ UNCHANGED lifeVars
  /\ UNCHANGED <<prov_ops, ncpus, running, emitted, initialised, stack, cbarg, ncalls,
                 buf, size, i, unread, slices>>
  /\ UNCHANGED cacheVars

\* ___read_relay: one read that returns n >= 0 bytes, size += rc, the loop condition
read_relay_read(t) ==
  /\ pc[t] = "rr_read"
  /\ fd[t] = "open"
  /\ \E n \in 0..Min(Len(unread[t]), buffer_size(RecSize(t)) - size[t]) :
       /\ buf' = [buf EXCEPT ![t] = @ \o SubSeq(unread[t], 1, n)]
       /\ unread' = [unread EXCEPT ![t] = SubSeq(@, n + 1, Len(@))]
       /\ size' = [size EXCEPT ![t] = @ + n]
       /\ Goto(t, AfterRead(t, size[t] + n))
  /\ UNCHANGED lifeVars
  /\ UNCHANGED <<prov_ops, ncpus, running, emitted, initialised, stack, cbarg, calls, ncalls,
                 i, slices, budget>>
  /\ UNCHANGED cacheVars

\* ___read_relay: one read that fails with EAGAIN: record_error, continue, which in a
\* do-while goes to the loop condition
read_relay_eagain(t) ==
  /\ pc[t] = "rr_read"
  /\ fd[t] = "open"
  /\ budget > 0
  /\ budget' = budget - 1
  /\ Log(t, record_error(prov_ops, "Failed while reading EAGAIN"))
  /\ Goto(t, AfterRead(t, size[t]))
  /\ UNCHANGED lifeVars
  /\ UNCHANGED <<prov_ops, ncpus, running, emitted, initialised, stack, cbarg, ncalls,
                 buf, size, i, unread, slices>>
  /\ UNCHANGED cacheVars

\* read_relay_error as it would be if the error ended reader_job
read_relay_error_fatal(t) ==
  /\ pc[t] = "rr_read"
  /\ fd[t] = "open"
  /\ budget > 0
  /\ budget' = budget - 1
  /\ Log(t, record_error(prov_ops, "Failed while reading"))
  /\ buf' = [buf EXCEPT ![t] = <<>>]
  /\ Goto(t, "done")
  /\ UNCHANGED lifeVars
  /\ UNCHANGED <<prov_ops, ncpus, running, emitted, initialised, stack, cbarg, ncalls,
                 size, i, unread, slices>>
  /\ UNCHANGED cacheVars

\* ___read_relay: one read that fails with another errno: record_error, free, return
read_relay_error(t) ==
  /\ pc[t] = "rr_read"
  /\ fd[t] = "open"
  /\ budget > 0
  /\ budget' = budget - 1
  /\ Log(t, record_error(prov_ops, "Failed while reading"))
  /\ buf' = [buf EXCEPT ![t] = <<>>]
  /\ Goto(t, While)
  /\ UNCHANGED lifeVars
  /\ UNCHANGED <<prov_ops, ncpus, running, emitted, initialised, stack, cbarg, ncalls,
                 size, i, unread, slices>>
  /\ UNCHANGED cacheVars

\* Entry as it would be if i were never advanced
Entry_first(b, off, prov_size) == SubSeq(b, 1, prov_size)
\* Entry as it would be if the entry were taken at buf + size, after size -= prov_size
Entry_fromend(b, off, prov_size) == SubSeq(b, Len(b) - off - prov_size + 1, Len(b) - off)

\* the entry ___read_relay passes to the callback: prov_size bytes at buf + i
Entry(b, off, prov_size) == SubSeq(b, off + 1, off + prov_size)

\* read_relay_dispatch as it would be if the callback were given size, not prov_size
read_relay_dispatch_size(t) ==
  /\ pc[t] = "rr_dispatch"
  /\ size[t] > 0
  /\ size' = [size EXCEPT ![t] = @ - RecSize(t)]
  /\ i' = [i EXCEPT ![t] = @ + RecSize(t)]
  /\ cbarg' = [cbarg EXCEPT ![t] = [fn |-> Callback(t),
                                     data |-> Entry(buf[t], i[t], RecSize(t)),
                                     prov_size |-> size[t]]]
  /\ slices' = [slices EXCEPT ![t] = Append(@, Entry(buf[t], i[t], RecSize(t)))]
  /\ Log(t, <<Ev("callback", Entry(buf[t], i[t], RecSize(t)))>>)
  /\ Call(t, Callback(t), "rr_dispatch")
  /\ UNCHANGED lifeVars
  /\ UNCHANGED <<prov_ops, ncpus, running, emitted, initialised, ncalls, buf, unread, budget>>
  /\ UNCHANGED cacheVars

\* ___read_relay: one turn of while(size>0), up to the call of the callback
read_relay_dispatch(t) ==
  /\ pc[t] = "rr_dispatch"
  /\ size[t] > 0
  /\ size' = [size EXCEPT ![t] = @ - RecSize(t)]
  /\ i' = [i EXCEPT ![t] = @ + RecSize(t)]
  /\ cbarg' = [cbarg EXCEPT ![t] = [fn |-> Callback(t),
                                     data |-> Entry(buf[t], i[t], RecSize(t)),
                                     prov_size |-> RecSize(t)]]
  /\ slices' = [slices EXCEPT ![t] = Append(@, Entry(buf[t], i[t], RecSize(t)))]
  /\ Log(t, <<Ev("callback", Entry(buf[t], i[t], RecSize(t)))>>)
  /\ Call(t, Callback(t), "rr_dispatch")
  /\ UNCHANGED lifeVars
  /\ UNCHANGED <<prov_ops, ncpus, running, emitted, initialised, ncalls, buf, unread, budget>>
  /\ UNCHANGED cacheVars

\* ___read_relay: while(size>0) ends after the last callback: free, return to reader_job, its loop condition
read_relay_done(t) ==
  /\ pc[t] = "rr_dispatch"
  /\ ~(size[t] > 0)
  /\ buf' = [buf EXCEPT ![t] = <<>>]
  /\ Goto(t, While)
  /\ UNCHANGED lifeVars
  /\ UNCHANGED <<prov_ops, ncpus, running, emitted, initialised, stack, cbarg, calls, ncalls,
                 size, i, unread, slices, budget>>
  /\ UNCHANGED cacheVars

(* ------------------------- registration and stop ----------------------- *)
NUMBER_CPUS == 256
\* the values of uint8_t ncpus
Uint8 == 256
\* what sysconf(_SC_NPROCESSORS_ONLN) may report: up to LifeCpus CPUs, and the counts
\* from NUMBER_CPUS on that the 8-bit ncpus brings down to 0..LifeCpus
SysCpus == (1..LifeCpus) \cup (NUMBER_CPUS..(NUMBER_CPUS + LifeCpus))
\* the operations tables given to provenance_relay_register
RegisterOps == {[set |-> Slots \ {"filter"}, is_query |-> FALSE]}
\* the jobs create_worker_pool submits
Jobs == {r \in Readers : r[1] <= ncpus}

\* provenance_relay_register up to the call of open_files: provenance_set_opaque,
\* memcpy of ops, ncpus = sysconf(...), the comparison with NUMBER_CPUS
provenance_relay_register(t) ==
  /\ pc[t] = "main"
  /\ \/ /\ ret' = "-1"
        /\ Goto(t, "reg_returned")
        /\ UNCHANGED <<prov_ops, ncpus, nprocs, i>>
     \/ \E n \in SysCpus, ops \in RegisterOps :
          /\ prov_ops' = ops
          /\ nprocs' = n
          /\ ncpus' = n % Uint8
          /\ IF n % Uint8 > NUMBER_CPUS
               THEN ret' = "-1" /\ Goto(t, "reg_returned") /\ UNCHANGED i
               ELSE /\ i' = [i EXCEPT ![t] = 0]
                    /\ Goto(t, "open_files")
                    /\ UNCHANGED ret
  /\ UNCHANGED <<running, emitted, initialised, stack, cbarg, calls, ncalls,
                 buf, size, unread, slices, budget, fd, worker_thpool, nash_inited>>
  /\ UNCHANGED cacheVars

\* open_files: the loop test, and open() of the short channel of CPU i
open_files(t) ==
  /\ pc[t] = "open_files"
  /\ IF i[t] < ncpus
       THEN \/ /\ fd' = [fd EXCEPT ![<<i[t] + 1, "short">>] = "open"]
               /\ Goto(t, "of_long")
               /\ UNCHANGED <<calls, ret, worker_thpool>>
            \/ /\ Log(t, record_error(prov_ops, "Could not open files"))
               /\ ret' = "-1"
               /\ Goto(t, "reg_returned")
               /\ UNCHANGED <<fd, worker_thpool>>
       ELSE /\ Goto(t, "create_worker_pool")
            /\ UNCHANGED <<fd, calls, ret, worker_thpool>>
  /\ UNCHANGED <<prov_ops, ncpus, running, emitted, initialised, stack, cbarg, ncalls,
                 nash_inited, nprocs>>
  /\ UNCHANGED cacheVars
  /\ UNCHANGED readVars

\* open_files: open() of the long channel of CPU i, i++
of_long(t) ==
  /\ pc[t] = "of_long"
  /\ \/ /\ fd' = [fd EXCEPT ![<<i[t] + 1, "long">>] = "open"]
        /\ i' = [i EXCEPT ![t] = @ + 1]
        /\ Goto(t, "open_files")
        /\ UNCHANGED <<calls, ret>>
     \/ /\ Log(t, record_error(prov_ops, "Could not open files"))
        /\ ret' = "-1"
        /\ Goto(t, "reg_returned")
        /\ UNCHANGED <<fd, i>>
  /\ UNCHANGED <<prov_ops, ncpus, running, emitted, initialised, stack, cbarg, ncalls,
                 buf, size, unread, slices, budget, worker_thpool, nash_inited, nprocs>>
  /\ UNCHANGED cacheVars

\* create_worker_pool: thpool_init(ncpus*2), i=0
create_worker_pool(t) ==
  /\ pc[t] = "create_worker_pool"
  /\ worker_thpool' = "created"
  /\ i' = [i EXCEPT ![t] = 0]
  /\ Goto(t, "cwp_add")
  /\ UNCHANGED <<prov_ops, ncpus, running, emitted, initialised, stack, cbarg, calls, ncalls,
                 buf, size, unread, slices, budget, fd, nash_inited, nprocs, ret>>
  /\ UNCHANGED cacheVars

\* create_worker_pool: one turn of the loop, the two thpool_add_work of CPU i; after the
\* loop it returns 0, always, and provenance_relay_register goes on
cwp_add(t) ==
  /\ pc[t] = "cwp_add"
  /\ IF i[t] < ncpus
       THEN /\ pc' = [r \in Procs |-> IF r \in Readers /\ r[1] = i[t] + 1 THEN "queued" ELSE pc[r]]
            /\ i' = [i EXCEPT ![t] = @ + 1]
       ELSE /\ Goto(t, "reg_pid")
            /\ UNCHANGED i
  /\ UNCHANGED <<prov_ops, ncpus, running, emitted, initialised, stack, cbarg, calls, ncalls,
                 buf, size, unread, slices, budget>>
  /\ UNCHANGED lifeVars
  /\ UNCHANGED cacheVars

\* provenance_relay_register: provenance_record_pid() and the test of what it returns
reg_pid(t) ==
  /\ pc[t] = "reg_pid"
  /\ \/ Goto(t, "nash_init") /\ UNCHANGED ret
     \/ ret' = "-1" /\ Goto(t, "reg_returned")
  /\ UNCHANGED <<prov_ops, ncpus, running, emitted, initialised, stack, cbarg, calls, ncalls,
                 fd, worker_thpool, nash_inited, nprocs>>
  /\ UNCHANGED cacheVars
  /\ UNCHANGED readVars

\* nash_init: pthread_mutex_init, which leaves the mutex unlocked whoever held it, and
\* the return of provenance_relay_register
nash_init(t) ==
  /\ pc[t] = "nash_init"
  /\ \/ /\ nash_inited' = TRUE
        /\ nash_lock' = Free
        /\ ret' = "0"
     \/ /\ ret' = "-1"
        /\ UNCHANGED <<nash_inited, nash_lock>>
  /\ Goto(t, "reg_returned")
  /\ UNCHANGED <<prov_ops, ncpus, running, emitted, initialised, stack, cbarg, calls, ncalls,
                 nhash, nameid, name, rv, fd, worker_thpool, nprocs>>
  /\ UNCHANGED readVars

\* a worker thread takes the job of channel t: reader_job up to its loop, with
\* set_thread_affinity succeeding
reader_job(t) ==
  /\ pc[t] = "queued"
  /\ Goto(t, "rj_poll")
  /\ UNCHANGED lifeVars
  /\ UNCHANGED <<prov_ops, ncpus, running, emitted, initialised, stack, cbarg, calls, ncalls>>
  /\ UNCHANGED cacheVars
  /\ UNCHANGED readVars

\* ___read_relay: one read on a closed descriptor fails with EBADF: record_error, free, return
read_relay_ebadf(t) ==
  /\ pc[t] = "rr_read"
  /\ fd[t] = "closed"
  /\ Log(t, record_error(prov_ops, "Failed while reading"))
  /\ buf' = [buf EXCEPT ![t] = <<>>]
  /\ Goto(t, While)
  /\ UNCHANGED lifeVars
  /\ UNCHANGED <<prov_ops, ncpus, running, emitted, initialised, stack, cbarg, ncalls,
                 size, i, unread, slices, budget>>
  /\ UNCHANGED cacheVars

\* provenance_relay_stop, called after a registration that returned 0: running = 0
provenance_relay_stop(t) ==
  /\ pc[t] = "reg_returned"
  /\ ret = "0"
  /\ running' = 0
  /\ Goto(t, "stop_sleep")
  /\ UNCHANGED lifeVars
  /\ UNCHANGED <<prov_ops, ncpus, emitted, initialised, stack, cbarg, calls, ncalls>>
  /\ UNCHANGED cacheVars
  /\ UNCHANGED readVars

\* provenance_relay_stop: sleep(1) is over, close_files is entered
stop_sleep(t) ==
  /\ pc[t] = "stop_sleep"
  /\ i' = [i EXCEPT ![t] = 0]
  /\ Goto(t, "close_files")
  /\ UNCHANGED lifeVars
  /\ UNCHANGED <<prov_ops, ncpus, running, emitted, initialised, stack, cbarg, calls, ncalls,
                 buf, size, unread, slices, budget>>
  /\ UNCHANGED cacheVars

\* close_files as it would be if it closed nothing
close_files_keep(t) ==
  /\ pc[t] = "close_files"
  /\ IF i[t] < ncpus
       THEN /\ i' = [i EXCEPT ![t] = @ + 1]
            /\ UNCHANGED pc
       ELSE /\ Goto(t, "destroy_worker_pool")
            /\ UNCHANGED i
  /\ UNCHANGED lifeVars
  /\ UNCHANGED <<prov_ops, ncpus, running, emitted, initialised, stack, cbarg, calls, ncalls,
                 buf, size, unread, slices, budget>>
  /\ UNCHANGED cacheVars

\* close_files: one turn of the loop, the two close() of CPU i; after the loop, return
close_files(t) ==
  /\ pc[t] = "close_files"
  /\ IF i[t] < ncpus
       THEN /\ fd' = [r \in Procs |-> IF r \in Readers /\ r[1] = i[t] + 1 THEN "closed" ELSE fd[r]]
            /\ i' = [i EXCEPT ![t] = @ + 1]
            /\ UNCHANGED pc
       ELSE /\ Goto(t, "destroy_worker_pool")
            /\ UNCHANGED <<fd, i>>
  /\ UNCHANGED <<prov_ops, ncpus, running, emitted, initialised, stack, cbarg, calls, ncalls,
                 buf, size, unread, slices, budget, worker_thpool, nash_inited, nprocs, ret>>
  /\ UNCHANGED cacheVars

\* destroy_worker_pool: thpool_wait returns once no job is queued or running; thpool_destroy
destroy_worker_pool(t) ==
  /\ pc[t] = "destroy_worker_pool"
  /\ \A r \in Jobs : pc[r] = "done"
  /\ worker_thpool' = "destroyed"
  /\ Goto(t, "stopped")
  /\ UNCHANGED <<prov_ops, ncpus, running, emitted, initialised, stack, cbarg, calls, ncalls,
                 fd, nash_inited, nprocs, ret>>
  /\ UNCHANGED cacheVars
  /\ UNCHANGED readVars

(* ------------------------------- drivers ------------------------------- *)
\* a record of the given kind: tag, then (identifier,) a serial payload, then padding
Rec(kind, tag, j) ==
  IF kind = "short" THEN <<tag, "s" \o ToString(j)>> \o Pad(ShortSize - 2)
  ELSE <<tag, "i1", "s" \o ToString(j)>> \o Pad(LongSize - 3)

\* a test program calls callback_job or long_callback_job on a record, with any size
Sizes == {ShortSize - 1, ShortSize, LongSize}
HarnessCall(t) ==
  /\ pc[t] = "idle"
  /\ \E kind \in Kinds, tag \in AllTags, psize \in Sizes, nm \in Names :
       /\ (tag # "ENT_PATH" \/ kind = "short") => nm = "a"
       /\ cbarg' = [cbarg EXCEPT ![t] =
                      [fn |-> IF kind = "short" THEN "callback_job" ELSE "long_callback_job",
                       data |-> IF kind = "short" THEN Rec(kind, tag, 1)
                                ELSE <<tag, "i1", nm>> \o Pad(LongSize - 3),
                       prov_size |-> psize]]
       /\ Call(t, IF kind = "short" THEN "callback_job" ELSE "long_callback_job", "h_returned")
  /\ UNCHANGED lifeVars
  /\ UNCHANGED <<prov_ops, ncpus, running, emitted, initialised, calls, ncalls>>
  /\ UNCHANGED cacheVars
  /\ UNCHANGED readVars

\* the test program has looked at what the callback did, and forgets it
HarnessReturn(t) ==
  /\ pc[t] = "h_returned"
  /\ calls' = [calls EXCEPT ![t] = <<>>]
  /\ cbarg' = [cbarg EXCEPT ![t] = [fn |-> "", data |-> <<>>, prov_size |-> 0]]
  /\ Goto(t, "idle")
  /\ UNCHANGED lifeVars
  /\ UNCHANGED <<prov_ops, ncpus, running, emitted, initialised, stack, ncalls>>
  /\ UNCHANGED cacheVars
  /\ UNCHANGED readVars

\* a test program calls one of the name cache functions
CacheFns == {"name_exists_entry", "name_add_entry", "name_find_entry"}
CacheCall(t) ==
  /\ pc[t] = "idle"
  /\ ncalls < MaxCacheCalls
  /\ ncalls' = ncalls + 1
  /\ \E f \in CacheFns, id \in Ids, nm \in Names :
       /\ f # "name_add_entry" => nm = "a"
       /\ nameid' = [nameid EXCEPT ![t] = id]
       /\ name' = [name EXCEPT ![t] = nm]
       /\ Log(t, <<Ev(f, IF f = "name_add_entry" THEN <<id, nm>> ELSE <<id>>)>>)
       /\ Call(t, f, "returned")
  /\ UNCHANGED lifeVars
  /\ UNCHANGED <<prov_ops, ncpus, running, emitted, initialised, cbarg, nhash, nash_lock, rv>>
  /\ UNCHANGED readVars

\* the test program takes what the name cache function returned
CacheReturn(t) ==
  /\ pc[t] = "returned"
  /\ Log(t, <<Ev("return", <<IF rv[t].found THEN "true" ELSE "false", rv[t].str>>)>>)
  /\ Goto(t, "idle")
  /\ UNCHANGED lifeVars
  /\ UNCHANGED <<prov_ops, ncpus, running, emitted, initialised, stack, cbarg, ncalls>>
  /\ UNCHANGED cacheVars
  /\ UNCHANGED readVars

(* ---------------------------- initial states --------------------------- *)
Whole(kind, tag, m) == [j \in 1..m |-> Rec(kind, tag, j)]
\* the stream with record q cut short by one byte
Truncate(recs, q) ==
  [j \in 1..Len(recs) |-> IF j = q THEN SubSeq(recs[j], 1, Len(recs[j]) - 1) ELSE recs[j]]

SoloTags(kind) == IF kind = "short" THEN {"ACT_TASK", "used", "ND_OTHER"} ELSE {"ENT_PATH", "ENT_STR"}
WholeStreams(kind) == {Whole(kind, tag, m) : tag \in SoloTags(kind), m \in 1..MaxRecs}
CutStreams(kind) ==
  UNION {{Truncate(Whole(kind, tag, m), q) : q \in 1..m} : tag \in SoloTags(kind), m \in 1..MaxRecs}

NoFilterOps == [set |-> Slots \ {"filter"}, is_query |-> FALSE]
ReaderOps == {NoFilterOps, [set |-> Slots, is_query |-> FALSE]}

Solo(kind, st) == [r \in Readers |-> IF r = <<1, kind>> THEN st ELSE <<>>]
\* one CPU, one of whose channels emits a stream, whole or with one record cut short
SoloScenarios ==
  {[ncpus |-> 1, budget |-> 0, ops |-> x[3], streams |-> Solo(x[1], x[2])] :
      x \in UNION {{<<k, st, o>> : st \in WholeStreams(k) \cup CutStreams(k), o \in ReaderOps} :
                     k \in Kinds}}
\* one CPU, one of whose channels emits whole records, with 1..MaxErrors failures
FaultyScenarios ==
  {[ncpus |-> 1, budget |-> x[3], ops |-> NoFilterOps, streams |-> Solo(x[1], x[2])] :
      x \in UNION {{<<k, st, e>> : st \in WholeStreams(k), e \in 1..MaxErrors} : k \in Kinds}}
\* every CPU emitting two task records on its short channel
UniformScenarios ==
  {[ncpus |-> NCpus, budget |-> 0, ops |-> NoFilterOps,
    streams |-> [r \in Readers |-> IF r[2] = "short" THEN Whole("short", "ACT_TASK", 2)
                                   ELSE <<>>]]}
\* every CPU emitting one path record for the same identifier, each with its own name
RaceScenarios ==
  {[ncpus |-> NCpus, budget |-> 0, ops |-> NoFilterOps,
    streams |-> [r \in Readers |-> IF r[2] = "long"
                                   THEN <<<<"ENT_PATH", "i1", "s" \o ToString(r[1])>> \o Pad(LongSize - 3)>>
                                   ELSE <<>>]]}
\* what the kernel emits, the failures it injects and the operations table registered
Scenarios == SoloScenarios \cup FaultyScenarios \cup UniformScenarios \cup RaceScenarios

HarnessOps ==
  {[set |-> x, is_query |-> q] :
     x \in {Slots, {}, {"log_error"}} \cup {Slots \ {sl} : sl \in Slots}, q \in BOOLEAN}

NoArg == [fn |-> "", data |-> <<>>, prov_size |-> 0]
NoRv == [found |-> FALSE, str |-> ""]

InitCommon ==
  /\ running = 1
  /\ nhash = <<>>
  /\ nash_lock = Free
  /\ initialised = [t \in Procs |-> FALSE]
  /\ stack = [t \in Procs |-> <<>>]
  /\ nameid = [t \in Procs |-> ""]
  /\ name = [t \in Procs |-> ""]
  /\ rv = [t \in Procs |-> NoRv]
  /\ cbarg = [t \in Procs |-> NoArg]
  /\ buf = [t \in Procs |-> <<>>]
  /\ size = [t \in Procs |-> 0]
  /\ i = [t \in Procs |-> 0]
  /\ calls = [t \in Procs |-> <<>>]
  /\ slices = [t \in Procs |-> <<>>]
  /\ ncalls = 0

\* provenance_relay_register has returned 0 for `n` CPUs
Registered(n) ==
  /\ fd = [t \in Procs |-> IF t \in Readers /\ t[1] <= n THEN "open" ELSE "none"]
  /\ worker_thpool = "created"
  /\ nash_inited = TRUE
  /\ nprocs = n
  /\ ret = "0"

\* after provenance_relay_register: every reader is at the top of its loop
InitScenario(sc) ==
  /\ InitCommon
  /\ Registered(sc.ncpus)
  /\ prov_ops = sc.ops
  /\ ncpus = sc.ncpus
  /\ budget = sc.budget
  /\ emitted = [t \in Procs |-> IF t \in Readers THEN sc.streams[t] ELSE <<>>]
  /\ unread = [t \in Procs |-> IF t \in Readers THEN Flatten(sc.streams[t]) ELSE <<>>]
  /\ pc = [t \in Procs |-> IF t \in Readers /\ t[1] <= sc.ncpus THEN "rj_poll" ELSE "none"]

Init == \E sc \in Scenarios : InitScenario(sc)

InitNoReaders ==
  /\ InitCommon
  /\ Registered(0)
  /\ ncpus = 0
  /\ budget = 0
  /\ emitted = [t \in Procs |-> <<>>]
  /\ unread = [t \in Procs |-> <<>>]
  /\ pc = [t \in Procs |-> IF t = Caller THEN "idle" ELSE "none"]

InitCallback == InitNoReaders /\ prov_ops \in HarnessOps
InitCache == InitNoReaders /\ prov_ops = [set |-> {}, is_query |-> FALSE]

\* what the channels of CPU 1 emit while the system is registered and stopped: nothing,
\* one path record, one task record, one task record cut short by one byte; with
\* nothing emitted, the environment may make one poll or read fail
LifeStreams ==
  {Solo("short", <<>>),
   Solo("long", Whole("long", "ENT_PATH", 1)),
   Solo("short", Whole("short", "ACT_TASK", 1)),
   Solo("short", Truncate(Whole("short", "ACT_TASK", 1), 1))}
LifeScenarios ==
  {[budget |-> 0, streams |-> st] : st \in LifeStreams}
    \cup {[budget |-> 1, streams |-> Solo("short", <<>>)]}

\* before provenance_relay_register is called
InitLife ==
  /\ InitCommon
  /\ prov_ops = [set |-> {}, is_query |-> FALSE]
  /\ ncpus = 0
  /\ fd = [t \in Procs |-> "none"]
  /\ worker_thpool = "NULL"
  /\ nash_inited = FALSE
  /\ nprocs = 0
  /\ ret = "none"
  /\ pc = [t \in Procs |-> IF t = Caller THEN "main" ELSE "none"]
  /\ \E sc \in LifeScenarios :
       /\ budget = sc.budget
       /\ emitted = [t \in Procs |-> IF t \in Readers THEN sc.streams[t] ELSE <<>>]
       /\ unread = [t \in Procs |-> IF t \in Readers THEN Flatten(sc.streams[t]) ELSE <<>>]

(* ---------------------------- specifications --------------------------- *)
CacheStep(t) ==
  \/ name_exists_entry(t) \/ ne_find(t)
  \/ name_add_entry(t) \/ nae_lock(t) \/ nae_add(t)
  \/ name_find_entry(t) \/ nf_find(t)

Next ==
  \E t \in Readers :
    \/ reader_job_poll(t) \/ reader_job_poll_error(t)
    \/ read_relay_read(t) \/ read_relay_eagain(t) \/ read_relay_error(t)
    \/ read_relay_while(t)
    \/ read_relay_dispatch(t) \/ read_relay_done(t)
    \/ callback_job(t) \/ long_callback_job(t) \/ lpr_path(t)
    \/ name_exists_entry(t) \/ ne_find(t)
    \/ name_add_entry(t) \/ nae_lock(t) \/ nae_add(t)

NextCallback ==
  \/ HarnessCall(Caller) \/ HarnessReturn(Caller)
  \/ callback_job(Caller) \/ long_callback_job(Caller) \/ lpr_path(Caller)
  \/ name_exists_entry(Caller) \/ ne_find(Caller)
  \/ name_add_entry(Caller) \/ nae_lock(Caller) \/ nae_add(Caller)

NextCache ==
  \/ CacheCall(Caller) \/ CacheReturn(Caller) \/ CacheStep(Caller)

\* what reader thread t can do while the system is registered and stopped
ReaderStep(t) ==
  \/ reader_job(t)
  \/ reader_job_poll(t) \/ reader_job_poll_error(t)
  \/ read_relay_read(t) \/ read_relay_eagain(t) \/ read_relay_error(t) \/ read_relay_ebadf(t)
  \/ read_relay_while(t)
  \/ read_relay_dispatch(t) \/ read_relay_done(t)
  \/ callback_job(t) \/ long_callback_job(t) \/ lpr_path(t)
  \/ name_exists_entry(t) \/ ne_find(t)
  \/ name_add_entry(t) \/ nae_lock(t) \/ nae_add(t)

\* the steps of a call of provenance_relay_register or provenance_relay_stop, once made
LifeStep(t) ==
  \/ open_files(t) \/ of_long(t)
  \/ create_worker_pool(t) \/ cwp_add(t) \/ reg_pid(t) \/ nash_init(t)
  \/ stop_sleep(t) \/ close_files(t) \/ destroy_worker_pool(t)

NextLife ==
  \/ provenance_relay_register(Caller) \/ provenance_relay_stop(Caller)
  \/ LifeStep(Caller)
  \/ \E t \in Readers : ReaderStep(t)

\* the running system: the channel readers of every CPU
Spec == Init /\ [][Next]_vars
\* one thread calling the two callbacks
SpecCallback == InitCallback /\ [][NextCallback]_vars
\* one thread calling the name cache
SpecCache == InitCache /\ [][NextCache]_vars
\* one thread registering and stopping, and the reader threads its registration starts;
\* a call that was made goes on and every reader that can take a step eventually takes
\* one; whether and when the two functions are called is up to the program
SpecLife ==
  /\ InitLife /\ [][NextLife]_vars
  /\ WF_vars(LifeStep(Caller))
  /\ \A t \in Readers : WF_vars(ReaderStep(t))

(* ------------------------------- claims -------------------------------- *)
Count(seq, P(_)) == Cardinality({k \in 1..Len(seq) : P(seq[k])})
EventsNamed(seq, names) == SelectSeq(seq, LAMBDA e : e[1] \in names)
Least(S) == CHOOSE k \in S : \A j \in S : k <= j

\* C1: the name cache never holds two entries for one identifier, whatever the
\* interleaving of the readers that call name_add_entry for it
C1_OneEntryPerId ==
  \A id \in Ids : Cardinality(HASH_FIND(nhash, id)) <= 1

\* the name_add_entry calls for id logged before position k of the caller's log
AddsBefore(L, k, id) ==
  {j \in 1..(k - 1) : L[j][1] = "name_add_entry" /\ L[j][2][1] = id}

C2_Returns ==
  LET L == calls[Caller] IN
  \A k \in 2..Len(L) :
    L[k][1] = "return" =>
      LET fn == L[k - 1][1]
          id == L[k - 1][2][1]
          adds == AddsBefore(L, k - 1, id)
      IN /\ fn = "name_exists_entry" => (L[k][2][1] = "true" <=> adds # {})
         /\ fn = "name_find_entry" =>
              L[k][2] = IF adds = {} THEN <<"false", "">> ELSE <<"true", L[Least(adds)][2][2]>>

C2_LookupsKeepCache ==
  pc[Caller] \in {"name_exists_entry", "ne_find", "name_find_entry", "nf_find"} => nhash' = nhash

\* C2: for one caller, name_exists_entry(id) is true exactly when name_add_entry was
\* called for id before, name_find_entry(id) returns the name of the first such call
\* (a second insert is a no-op), and no lookup changes the cache
C2_FirstInsertWins == []C2_Returns /\ [][C2_LookupsKeepCache]_vars

\* C2 witness: insert(i1, a), insert(i1, b), then lookup(i1) has returned a
C2_Witness ==
  LET L == calls[Caller] IN
  /\ Len(L) = 6
  /\ L[1] = Ev("name_add_entry", <<"i1", "a">>)
  /\ L[3] = Ev("name_add_entry", <<"i1", "b">>)
  /\ L[5] = Ev("name_find_entry", <<"i1">>)
  /\ L[6] = Ev("return", <<"true", "a">>)

(* claims about the channel readers *)
Args(seq) == [k \in 1..Len(seq) |-> seq[k][2]]
\* the entries thread t has passed to its callback, over its whole life
Dispatched(t) == Args(EventsNamed(calls[t], {"callback"}))
WellFormed(t) == \A k \in 1..Len(emitted[t]) : Len(emitted[t][k]) = RecSize(t)
\* no read of t has failed with an errno other than EAGAIN
NoAbort(t) == Count(calls[t], LAMBDA e : e = Ev("record_error", <<"Failed while reading">>)) = 0
\* t is between two drains and has read everything its channel emits
Drained(t) == pc[t] = "rj_poll" /\ unread[t] = <<>>
\* the j-th run of p bytes of a byte sequence
Slice(bytes, j, p) == SubSeq(bytes, (j - 1) * p + 1, j * p)

\* the handler the specification gives each record type
SlotFor(kind, tag) ==
  IF kind = "short" THEN
    CASE tag \in RelationClasses -> "log_" \o tag
      [] tag = "ENT_PROC" -> "log_proc"
      [] tag = "ACT_TASK" -> "log_task"
      [] tag \in InodeTags -> "log_inode"
      [] tag = "ENT_MSG" -> "log_msg"
      [] tag = "ENT_SHM" -> "log_shm"
      [] tag = "ENT_PACKET" -> "log_packet"
      [] tag = "ENT_IATTR" -> "log_iattr"
      [] OTHER -> "none"
  ELSE
    CASE tag = "ENT_STR" -> "log_str"
      [] tag = "ENT_PATH" -> "log_file_name"
      [] tag = "ENT_ADDR" -> "log_address"
      [] tag = "ENT_XATTR" -> "log_xattr"
      [] tag = "ENT_DISC" -> "log_ent_disc"
      [] tag = "ACT_DISC" -> "log_act_disc"
      [] tag = "AGT_DISC" -> "log_agt_disc"
      [] tag = "ENT_PCKCNT" -> "log_packet_content"
      [] tag \in {"ENT_ARG", "ENT_ENV"} -> "log_arg"
      [] tag = "AGT_MACHINE" -> "log_machine"
      [] OTHER -> "none"

\* C3: on a channel of well-formed records with no non-retryable read error, the
\* entries passed to the callback are the emitted records, each once and in emission
\* order, however the reads split the stream: dispatched, buffered and unread bytes
\* always add up to the stream, and once the channel is drained every record was
\* dispatched and (with no filter) each handler got its kind's records, in order
C3_EachRecordOnceInOrder ==
  \A t \in Readers :
    (WellFormed(t) /\ NoAbort(t)) =>
      /\ IsPrefix(Dispatched(t), emitted[t])
      /\ Flatten(Dispatched(t)) \o SubSeq(buf[t], i[t] + 1, Len(buf[t])) \o unread[t]
           = Flatten(emitted[t])
      /\ Drained(t) => Dispatched(t) = emitted[t]
      /\ (Drained(t) /\ "filter" \notin prov_ops.set /\ ~prov_ops.is_query) =>
           \A slot \in HandlerSlots \cap prov_ops.set :
             Args(EventsNamed(calls[t], {slot}))
               = SelectSeq(emitted[t], LAMBDA r : SlotFor(t[2], r[1]) = slot)

\* C3 witness: every CPU has emitted two task records and log_task has got both, in
\* order, on every CPU: 2 * NCpus calls
C3_Witness ==
  \A c \in 1..NCpus :
    /\ Drained(<<c, "short">>)
    /\ Len(emitted[<<c, "short">>]) = 2
    /\ Args(EventsNamed(calls[<<c, "short">>], {"log_task"})) = emitted[<<c, "short">>]

\* C4: in the dispatch loop of a drain the callback has been given the first i /
\* record_size slices of the buffer, one call each and in buffer order, and when the
\* loop ends it has been given all k of them
C4_OneCallPerSlice ==
  \A t \in Readers :
    pc[t] = "rr_dispatch" =>
      /\ i[t] + size[t] = Len(buf[t])
      /\ Len(buf[t]) % RecSize(t) = 0
      /\ slices[t] = [j \in 1..(i[t] \div RecSize(t)) |-> Slice(buf[t], j, RecSize(t))]
      /\ size[t] = 0 => Len(slices[t]) = Len(buf[t]) \div RecSize(t)

\* C4 witness: a drain of two records has dispatched both
C4_Witness ==
  \E t \in Readers :
    /\ pc[t] = "rr_dispatch" /\ size[t] = 0
    /\ Len(buf[t]) = 2 * RecSize(t)
    /\ Len(slices[t]) = 2

\* the channel of t emits one record cut short by one byte among whole records
OneCut(t) ==
  /\ Cardinality({k \in 1..Len(emitted[t]) : Len(emitted[t][k]) = RecSize(t) - 1}) = 1
  /\ \A k \in 1..Len(emitted[t]) : Len(emitted[t][k]) \in {RecSize(t) - 1, RecSize(t)}

\* C5 as stated: on a channel with one record cut short by one byte, a handler is only
\* ever given a whole emitted record with its content (none for the cut record)
C5_Original ==
  \A t \in Readers :
    OneCut(t) =>
      \A k \in 1..Len(calls[t]) :
        calls[t][k][1] \in HandlerSlots =>
          \E r \in 1..Len(emitted[t]) :
            Len(emitted[t][r]) = RecSize(t) /\ calls[t][k][2] = emitted[t][r]

\* C5 amended: on such a channel the reader does not detect the cut record: the j-th
\* entry it dispatches is the j-th run of record_size bytes of the byte stream, and the
\* callback is always given record_size, so no wrong-size error is ever logged
C5_FixedOffsets ==
  \A t \in Readers :
    (OneCut(t) /\ NoAbort(t)) =>
      /\ \A j \in 1..Len(Dispatched(t)) :
           Dispatched(t)[j] = Slice(Flatten(emitted[t]), j, RecSize(t))
      /\ Count(calls[t], LAMBDA e : e = Ev("record_error", <<"Wrong size">>)) = 0
      /\ pc[t] \in {"callback_job", "long_callback_job"} => cbarg[t].prov_size = RecSize(t)

\* C5 witness: a handler was given an entry that is no emitted record: the bytes of
\* the cut record followed by the first byte of the next
C5_Witness ==
  \E t \in Readers :
    /\ OneCut(t)
    /\ \E k \in 1..Len(calls[t]) :
         /\ calls[t][k][1] \in HandlerSlots
         /\ \A r \in 1..Len(emitted[t]) : calls[t][k][2] # emitted[t][r]

\* the calls thread t has made into the operations table, init and log_error apart
Observed(t) ==
  {k \in 1..Len(calls[t]) :
     calls[t][k][1] \in (Slots \ {"init", "log_error"}) \cup {"filter:true", "filter:false"}}
Inits(t) == {k \in 1..Len(calls[t]) : calls[t][k][1] = "init"}

\* C10: with init set, a reader thread calls it at most once in its life, before any
\* observer, filter or handler call it makes, exactly once as soon as it has run a
\* callback on a record, and never while it has dispatched no record
C10_InitOncePerThread ==
  \A t \in Readers :
    "init" \in prov_ops.set =>
      /\ Cardinality(Inits(t)) <= 1
      /\ \A k \in Observed(t) : \E j \in Inits(t) : j < k
      /\ Dispatched(t) = <<>> => Inits(t) = {}
      /\ (Dispatched(t) # <<>> /\ pc[t] \notin {"callback_job", "long_callback_job"}) =>
           Cardinality(Inits(t)) = 1

\* C10 witness: a thread has run its callback on three records and called init once
C10_Witness ==
  \E t \in Readers :
    /\ "init" \in prov_ops.set
    /\ Len(Dispatched(t)) = 3
    /\ Drained(t)
    /\ Cardinality(Inits(t)) = 1

(* claims about the callbacks, for the thread Caller that calls them *)
Returned == pc[Caller] = "h_returned"
CalledKind == IF cbarg[Caller].fn = "callback_job" THEN "short" ELSE "long"
RightSize ==
  /\ cbarg[Caller].fn # ""
  /\ cbarg[Caller].prov_size = (IF CalledKind = "short" THEN ShortSize ELSE LongSize)
Observer == IF CalledKind = "short" THEN "received_prov" ELSE "received_long_prov"
FilterEvents == {"filter:true", "filter:false"}
\* the handler the specification gives the record of the call
CalledSlot == SlotFor(CalledKind, cbarg[Caller].data[1])
Has(names) == \E k \in 1..Len(calls[Caller]) : calls[Caller][k][1] \in names
Last == calls[Caller][Len(calls[Caller])]

WrongSizeCall(t) ==
  \/ pc[t] = "callback_job" /\ cbarg[t].prov_size # ShortSize
  \/ pc[t] = "long_callback_job" /\ cbarg[t].prov_size # LongSize
\* what a step appends to the log of t
Appended(t) == SubSeq(calls'[t], Len(calls[t]) + 1, Len(calls'[t]))

C6_Step ==
  WrongSizeCall(Caller) =>
    /\ IsPrefix(calls[Caller], calls'[Caller])
    /\ Count(Appended(Caller), LAMBDA e : e[1] = "record_error") = 1
    /\ \A k \in 1..Len(Appended(Caller)) : Appended(Caller)[k][1] \in {"record_error", "log_error"}
    /\ nhash' = nhash
    /\ initialised' = initialised
    /\ pc'[Caller] = "h_returned"

\* C6: a call of callback_job or long_callback_job with a size that is not the size
\* of its record shape calls record_error once, calls nothing of the operations table
\* but log_error, leaves the name cache and the init latch alone, and returns
C6_WrongSizeDropped == [][C6_Step]_vars

\* C6 witness: long_callback_job was called with the size of a short record and has
\* returned after one record_error
C6_Witness ==
  /\ Returned
  /\ cbarg[Caller].fn = "long_callback_job" /\ cbarg[Caller].prov_size = ShortSize
  /\ calls[Caller] = <<Ev("record_error", <<"Wrong size">>), Ev("log_error", <<"Wrong size">>)>>

\* C7: in query mode a correctly sized record never reaches the filter or a handler,
\* and when the callback returns the observer, if set, was called once, on the record
C7_QueryObservesOnly ==
  (RightSize /\ prov_ops.is_query) =>
    /\ ~Has(HandlerSlots \cup FilterEvents)
    /\ Returned =>
         /\ Count(calls[Caller], LAMBDA e : e[1] = Observer)
              = (IF Observer \in prov_ops.set THEN 1 ELSE 0)
         /\ Observer \in prov_ops.set => Last = Ev(Observer, cbarg[Caller].data)

\* C7 witness: query mode, filter and handlers set, a path record: only init and the
\* observer were called
C7_Witness ==
  /\ Returned /\ RightSize /\ prov_ops.is_query
  /\ prov_ops.set = Slots
  /\ cbarg[Caller].data[1] = "ENT_PATH"
  /\ Has({"received_long_prov"})

\* C8: outside query mode, for a correctly sized record: when the filter returns true
\* the observer (if set) was called before it and no handler is called; when the filter
\* is unset or returns false the record is classified: its handler, if set, is called
\* once on it, and an unrecognised tag is reported
C8_FilterAfterObserver ==
  (Returned /\ RightSize /\ ~prov_ops.is_query) =>
    LET L == calls[Caller]
        msg == cbarg[Caller].data
    IN /\ Count(L, LAMBDA e : e[1] \in FilterEvents) = (IF "filter" \in prov_ops.set THEN 1 ELSE 0)
       /\ Has({"filter:true"}) =>
            /\ Last = Ev("filter:true", msg)
            /\ Observer \in prov_ops.set => L[Len(L) - 1] = Ev(Observer, msg)
            /\ ~Has(HandlerSlots \cup {"record_error"})
       /\ ~Has({"filter:true"}) =>
            /\ (CalledSlot # "none" /\ CalledSlot \in prov_ops.set) =>
                 /\ Last = Ev(CalledSlot, msg)
                 /\ Count(L, LAMBDA e : e[1] \in HandlerSlots) = 1
            /\ CalledSlot = "none" =>
                 /\ Count(L, LAMBDA e : e[1] = "record_error") = 1
                 /\ ~Has(HandlerSlots)

\* C8 witness: the filter returned true for a task record after received_prov saw it
C8_Witness ==
  /\ Returned /\ RightSize /\ ~prov_ops.is_query
  /\ cbarg[Caller].data[1] = "ACT_TASK"
  /\ Len(calls[Caller]) >= 2
  /\ Last[1] = "filter:true"
  /\ calls[Caller][Len(calls[Caller]) - 1][1] = "received_prov"

\* C9: a record whose tag is recognised and whose handler is unset makes dispatch call
\* no handler and not log_error; log_error is called only for a tag of no known kind
C9_UnsetHandlerIsNoError ==
  (Returned /\ RightSize) =>
    /\ (CalledSlot # "none" /\ CalledSlot \notin prov_ops.set) => ~Has(HandlerSlots \cup {"log_error"})
    /\ Has({"log_error"}) => CalledSlot = "none"

(* claims about registration and stop *)
StopCalled == running = 0
ReadersGone == \A r \in Jobs : pc[r] = "done"
Closed == {r \in Readers : fd[r] = "closed"}
Open == {r \in Readers : fd[r] = "open"}

\* C11: once provenance_relay_stop has been called after a successful registration,
\* eventually every reader task has left its loop, thpool_wait has returned and all
\* 2 * ncpus channel descriptors are closed
C11_StopTerminates ==
  StopCalled ~>
    (ReadersGone /\ worker_thpool = "destroyed" /\ Cardinality(Closed) = 2 * ncpus /\ Open = {})

\* C11 witness: stop has returned for one CPU whose short channel had left its reader
\* in a drain with a misaligned length; both readers are gone and both descriptors closed
C11_Witness ==
  /\ pc[Caller] = "stopped"
  /\ ncpus = 1
  /\ ReadersGone /\ Cardinality(Closed) = 2
  /\ size[<<1, "short">>] = ShortSize - 1

\* C12: when provenance_relay_register has returned failure, no channel descriptor it
\* opened is still open and no reader task is queued or running
C12_FailureLeavesNothing ==
  ret = "-1" =>
    /\ Open = {}
    /\ \A r \in Readers : pc[r] \in {"none", "done"}

\* C13: when sysconf reports more than NUMBER_CPUS CPUs, registration fails with no
\* channel opened and no pool created; when it reports n <= NUMBER_CPUS, open_files
\* has opened exactly n short and n long channels when the pool is created
C13_CpuLimit ==
  /\ nprocs > NUMBER_CPUS =>
       /\ pc[Caller] = "reg_returned" /\ ret = "-1"
       /\ Open = {} /\ Closed = {} /\ worker_thpool = "NULL"
  /\ (nprocs \in 1..NUMBER_CPUS /\ pc[Caller] = "create_worker_pool") =>
       /\ Cardinality({r \in Open : r[2] = "short"}) = nprocs
       /\ Cardinality({r \in Open : r[2] = "long"}) = nprocs

C14_PathInserted ==
  (pc[Caller] = "lpr_path" \/ Has({"log_file_name"})) =>
     HASH_FIND(nhash, cbarg[Caller].data[2]) # {}
C14_OnlyPathChanges ==
  nhash' # nhash =>
    /\ cbarg[Caller].fn = "long_callback_job"
    /\ cbarg[Caller].data[1] = "ENT_PATH"
    /\ cbarg[Caller].prov_size = LongSize
    /\ ~prov_ops.is_query /\ ~Has({"filter:true"})

\* C14: the name cache has an entry for the identifier of a path record before
\* log_file_name is called on it, and no step of a callback changes the name cache but
\* in the dispatch of a correctly sized path record
C14_CacheFrame == []C14_PathInserted /\ [][C14_OnlyPathChanges]_vars

\* C14 witness: long_callback_job has returned from a path record, log_file_name was
\* its last call and the cache holds the name of the record
C14_Witness ==
  /\ Returned /\ RightSize
  /\ cbarg[Caller].data[1] = "ENT_PATH"
  /\ Has({"log_file_name"})
  /\ Last = Ev("log_file_name", cbarg[Caller].data)
  /\ nhash = <<[id |-> cbarg[Caller].data[2], str |-> cbarg[Caller].data[3]]>>

\* C15: no channel descriptor is closed while the reader of the channel is in its loop,
\* where it can still poll or read the descriptor
C15_ReaderOwnsDescriptor ==
  \A r \in Readers : fd[r] = "closed" => pc[r] \in {"queued", "done"}

(* claims about one drain *)
\* t is in the loop that calls the callback, or in a callback called from it
Dispatching(t) == pc[t] = "rr_dispatch" \/ (stack[t] # <<>> /\ stack[t][Len(stack[t])] = "rr_dispatch")

C16_WholeRecordsOnly ==
  \A t \in Readers :
    Dispatching(t) =>
      /\ Len(buf[t]) % RecSize(t) = 0
      /\ size[t] % RecSize(t) = 0
      /\ \A k \in 1..Len(slices[t]) : Len(slices[t][k]) = RecSize(t)
C16_Step ==
  \A t \in Readers :
    /\ (pc[t] = "rr_read" /\ pc'[t] = "rr_dispatch") =>
         size'[t] % RecSize(t) = 0 /\ size'[t] = Len(buf'[t])
    /\ (pc[t] = "rr_read" /\ pc'[t] # "rr_read" /\ calls'[t] = calls[t] /\ size'[t] % RecSize(t) # 0) =>
         pc'[t] = "rr_while" /\ IsPrefix(buf[t], buf'[t])
    /\ pc[t] = "rr_while" =>
         pc'[t] \in {"rr_while", "rr_read"} /\ buf'[t] = buf[t] /\ size'[t] = size[t]

\* C16: the callback is only called in a drain whose accumulated length is a multiple
\* of the record size, on entries of one record size; a read that leaves the length
\* misaligned is followed by the loop condition and another read into the same buffer
C16_NoPartialDispatch == []C16_WholeRecordsOnly /\ [][C16_Step]_vars

\* C16 witness: a read has left more than one record in the buffer at a misaligned
\* length; nothing was dispatched and the loop goes back to read
C16_Witness ==
  \E t \in Readers :
    /\ pc[t] = "rr_while"
    /\ size[t] > RecSize(t) /\ size[t] % RecSize(t) # 0
    /\ slices[t] = <<>>

\* the step appends to the log of t the report of the error `what`
Reports(t, what) ==
  /\ IsPrefix(calls[t], calls'[t])
  /\ Appended(t) = record_error(prov_ops, what)

\* C17: a read that fails with EAGAIN leaves the reader in the do-while of the same
\* drain, to read again into the same buffer at the same offset, whatever the
\* accumulated length
C17_EagainRetried ==
  [][\A t \in Readers :
       (pc[t] = "rr_read" /\ Reports(t, "Failed while reading EAGAIN")) =>
         /\ pc'[t] \in {"rr_while", "rr_read"}
         /\ buf'[t] = buf[t] /\ size'[t] = size[t]]_vars

C18_Step ==
  \A t \in Readers :
    /\ (pc[t] = "rj_poll" /\ Reports(t, "Failed while polling")) =>
         /\ pc'[t] = (IF running = 1 THEN "rj_poll" ELSE "done")
         /\ unread'[t] = unread[t] /\ slices'[t] = slices[t]
         /\ Count(Appended(t), LAMBDA e : e[1] = "record_error") = 1
    /\ (pc[t] = "rr_read" /\ Reports(t, "Failed while reading")) =>
         /\ pc'[t] = (IF running = 1 THEN "rj_poll" ELSE "done")
         /\ slices[t] = <<>> /\ slices'[t] = <<>>
         /\ buf'[t] = <<>>
         /\ Count(Appended(t), LAMBDA e : e[1] = "record_error") = 1

\* C18: a poll error is logged and the iteration ends without a read; a read error
\* other than EAGAIN is logged and the drain ends with no callback called in it and its
\* buffer discarded; either way the reader is back at the test of running, and at the
\* top of its loop while running is set: with running set no reader ever ends
C18_ErrorsNotFatal ==
  [][C18_Step]_vars /\ [](running = 1 => \A t \in Readers : pc[t] # "done")

\* C18 witness: a read failed after bytes of the channel were accumulated; nothing
\* of this channel was ever dispatched, and the reader is at the top of its loop
C18_Witness ==
  \E t \in Readers :
    /\ pc[t] = "rj_poll"
    /\ calls[t] = record_error(prov_ops, "Failed while reading")
    /\ Len(unread[t]) < Len(Flatten(emitted[t]))
    /\ running = 1

\* C19: no reader thread holds nash_lock, which name_exists_entry, name_add_entry and
\* name_find_entry lock first, before nash_init has initialised it
C19_CacheAfterInit ==
  \A t \in Readers : pc[t] \in {"ne_find", "nae_add", "nf_find"} => nash_inited

\* C20: after a successful registration every call of ___read_relay on a descriptor
\* that stays open returns: a reader in the do-while is eventually back at the test of
\* running, at the top of its loop or done
C20_DrainReturns ==
  \A t \in Readers :
    [](pc[t] \in {"rr_read", "rr_while"} /\ fd[t] = "open" /\ ret = "0" =>
         <>(pc[t] \in {"rj_poll", "done"} \/ fd[t] # "open"))

============================================================================
